---- MODULE Spec2Model ----
(***************************************************************************)
(* Model of the concurrent visualisation pipeline of ticket-to-ride-ai     *)
(* (src/gui.py): the caller/game thread driving initialise,                *)
(* update_game_state and shutdown, and the _GUIThread render loop, joined  *)
(* by the update queue and the command queue.                              *)
(***************************************************************************)
EXTENDS Integers, Sequences, FiniteSets, TLC

(* ------------------------------ bounds -------------------------------- *)
\* how many render threads a run may spawn
MaxThreads == 2
\* how many snapshots a run may enqueue
MaxPush == 2
\* how many snapshots a run of the action-log scenario may enqueue
MaxLogPush == 12
\* how many snapshots may wait in update_queue in the action-log scenario
MaxBacklog == 2
\* how many frames may raise in the action-log scenario
MaxBadFrames == 1
\* how many nodes an MCTS tree given to visualize_mcts_tree may have
MaxNodes == 6
\* the largest max_depth given to visualize_mcts_tree
MaxD == 3
\* the largest max_children_per_node given to visualize_mcts_tree
MaxK == 4
\* the largest num_segments given to _draw_dashed_line
MaxSeg == 4
\* how many nodes a cyclic structure given to visualize_mcts_tree may have
MaxCycNodes == 3
\* the largest per-ticket count of a draw_destination_tickets action
MaxTicketCount == 2
\* how many players a snapshot may hold
MaxPlayers == 4

\* the longest city name, in characters
MaxNameLen == 2
\* how many city1 -> city2 entries the routes mapping of a game holds
MaxArcs == 2

\* how many changes the game makes to its live objects
MaxEdits == 3

(* ------------------------- program constants -------------------------- *)
\* capacity of the action log
LogCapacity == 10
\* how many best children the tree sampler always keeps
TopCount == 3
\* FIXED_DASH_LENGTH and FIXED_SPACE_LENGTH of _draw_dashed_line
FixedDash == 6
FixedSpace == 4
\* the perpendicular offset of a parallel route, in pixels
RouteOffset == 5

\* the code point of the "-" that joins the two cities of a route key
Hyphen == 45

Threads == 1..MaxThreads

VARIABLES
    gui_instance,    \* _gui_instance is not None
    running,         \* TicketToRideGUI.running
    gui_thread,      \* TicketToRideGUI.gui_thread (0 = None, else a thread id)
    city_positions,  \* TicketToRideGUI.city_positions ("empty" or "table")
    screen,          \* TicketToRideGUI.screen ("none", "open", "closed")
    action_log,      \* TicketToRideGUI.action_log
    update_queue,    \* TicketToRideGUI.update_queue
    command_queue,   \* TicketToRideGUI.command_queue
    thr,             \* the _GUIThread objects: position, game_state, ready
    nthreads,        \* number of _GUIThread objects constructed so far
    pc_c,            \* position of the caller/game thread
    cur,             \* arguments of the call in progress
    result,          \* outcome of the caller's last completed call
    caller_exc,      \* an exception escaped a call into the caller
    nenq,            \* number of snapshots enqueued so far
    last_enq,        \* the snapshot enqueued last
    drawn_ok,        \* ids of the actions whose frame reached _draw_action
    ts,              \* graph.visualize_mcts_tree: inputs, BFS queue, graph G
    dl,              \* _draw_dashed_line: inputs, position, dashes drawn
    frame            \* another routine examined alone: its inputs and locals

vars == <<gui_instance, running, gui_thread, city_positions, screen,
          action_log, update_queue, command_queue, thr, nthreads, pc_c, cur,
          result, caller_exc, nenq, last_enq, drawn_ok, ts, dl, frame>>

\* the variables of the routines examined alone, idle while the pipeline runs
pure == <<ts, dl, frame>>

\* the variables of the GUI pipeline, idle while a pure routine runs
pipeline == <<gui_instance, running, gui_thread, city_positions, screen,
              action_log, update_queue, command_queue, thr, nthreads, pc_c,
              cur, result, caller_exc, nenq, last_enq, drawn_ok>>

(* ------------------------------ values -------------------------------- *)
\* self.game_state = None
NoState == [id |-> 0, action |-> FALSE]

NoCall == [wf |-> TRUE, action |-> FALSE, report |-> "skipped"]

NoResult == [op |-> "none", val |-> "none", note |-> "none"]

NewThread ==
    [pc |-> "new", game_state |-> NoState, ready |-> FALSE, exit |-> "none",
     iter_got |-> 0, iter_draws |-> 0]

\* threading.Thread.is_alive()
Alive(t) == thr[t].pc \notin {"new", "nostart", "dead"}

\* neither pure routine has been called
Off == [pc |-> "off"]

Init ==
    /\ drawn_ok = <<>>
    /\ ts = Off
    /\ dl = Off
    /\ frame = Off
    /\ gui_instance = FALSE
    /\ running = FALSE
    /\ gui_thread = 0
    /\ city_positions = "empty"
    /\ screen = "none"
    /\ action_log = <<>>
    /\ update_queue = <<>>
    /\ command_queue = <<>>
    /\ thr = [t \in Threads |-> NewThread]
    /\ nthreads = 0
    /\ pc_c = "idle"
    /\ cur = NoCall
    /\ result = NoResult
    /\ caller_exc = FALSE
    /\ nenq = 0
    /\ last_enq = NoState

(* ====================== the caller / game thread ====================== *)

Ret(op, val, note) == [op |-> op, val |-> val, note |-> note]

\* TicketToRideGUI.__init__ by a caller that holds its own instance
Construct ==
    /\ pc_c = "idle"
    /\ ~gui_instance
    /\ gui_instance' = TRUE
    /\ UNCHANGED <<drawn_ok, ts, dl, frame>>
    /\ UNCHANGED <<running, gui_thread, city_positions, screen, action_log,
                   update_queue, command_queue, thr, nthreads, pc_c, cur,
                   result, caller_exc, nenq, last_enq>>

(* ------------------------------ start() ------------------------------- *)

\* initialise_gui(): build the singleton when there is none, then initialise()
CallStart ==
    /\ pc_c = "idle"
    /\ nthreads < MaxThreads
    /\ gui_instance' = TRUE
    /\ pc_c' = "init_check"
    /\ cur' = NoCall
    /\ result' = NoResult
    /\ UNCHANGED <<drawn_ok, ts, dl, frame>>
    /\ UNCHANGED <<running, gui_thread, city_positions, screen, action_log,
                   update_queue, command_queue, thr, nthreads,
                   caller_exc, nenq, last_enq>>

InitGuardOnRunning == running /\ gui_thread # 0 /\ Alive(gui_thread)

InitGuardNoCheck == FALSE

\* if self.gui_thread and self.gui_thread.is_alive()
InitGuard == gui_thread # 0 /\ Alive(gui_thread)

\* return True: a thread is already running
InitAlready ==
    /\ pc_c = "init_check"
    /\ InitGuard
    /\ pc_c' = "idle"
    /\ result' = Ret("start", "true", "alive")
    /\ UNCHANGED <<drawn_ok, ts, dl, frame>>
    /\ UNCHANGED <<gui_instance, running, gui_thread, city_positions, screen,
                   action_log, update_queue, command_queue, thr, nthreads, cur,
                   caller_exc, nenq, last_enq>>

\* city_positions = {}; gui_thread = _GUIThread(self); gui_thread.start()
InitSpawn ==
    /\ pc_c = "init_check"
    /\ ~InitGuard
    /\ nthreads < MaxThreads
    /\ city_positions' = "empty"
    /\ nthreads' = nthreads + 1
    /\ gui_thread' = nthreads + 1
    /\ thr' = [thr EXCEPT ![nthreads + 1] = [NewThread EXCEPT !.pc = "setmode"]]
    /\ pc_c' = "init_wait"
    /\ UNCHANGED <<drawn_ok, ts, dl, frame>>
    /\ UNCHANGED <<gui_instance, running, screen, action_log, update_queue,
                   command_queue, cur, result, caller_exc, nenq, last_enq>>

\* gui_thread.start() raises: except Exception -> return False
InitSpawnFails ==
    /\ pc_c = "init_check"
    /\ ~InitGuard
    /\ nthreads < MaxThreads
    /\ city_positions' = "empty"
    /\ nthreads' = nthreads + 1
    /\ gui_thread' = nthreads + 1
    /\ thr' = [thr EXCEPT ![nthreads + 1] = [NewThread EXCEPT !.pc = "nostart"]]
    /\ pc_c' = "idle"
    /\ result' = Ret("start", "false", "startfail")
    /\ UNCHANGED <<drawn_ok, ts, dl, frame>>
    /\ UNCHANGED <<gui_instance, running, screen, action_log, update_queue,
                   command_queue, cur, caller_exc, nenq, last_enq>>

WaitResultIgnored(t) == TRUE

\* the value of self.gui_thread.ready.wait(timeout=5.0)
WaitResult(t) == thr[t].ready

BoolStr(b) == IF b THEN "true" ELSE "false"

\* ready.wait returns because the event is set
InitWaitReady ==
    /\ pc_c = "init_wait"
    /\ thr[gui_thread].ready
    /\ pc_c' = "idle"
    /\ result' = Ret("start", BoolStr(WaitResult(gui_thread)), "spawn")
    /\ UNCHANGED <<drawn_ok, ts, dl, frame>>
    /\ UNCHANGED <<gui_instance, running, gui_thread, city_positions, screen,
                   action_log, update_queue, command_queue, thr, nthreads, cur,
                   caller_exc, nenq, last_enq>>

\* ready.wait returns because the 5.0 s have elapsed with the event unset
InitWaitTimeout ==
    /\ pc_c = "init_wait"
    /\ ~thr[gui_thread].ready
    /\ pc_c' = "idle"
    /\ result' = Ret("start", BoolStr(WaitResult(gui_thread)), "timeout")
    /\ UNCHANGED <<drawn_ok, ts, dl, frame>>
    /\ UNCHANGED <<gui_instance, running, gui_thread, city_positions, screen,
                   action_log, update_queue, command_queue, thr, nthreads, cur,
                   caller_exc, nenq, last_enq>>

(* -------------------------- push_snapshot() --------------------------- *)

\* module-level update_game_state with _gui_instance None: nothing happens
CallPushNoInstance ==
    /\ pc_c = "idle"
    /\ ~gui_instance
    /\ result' = Ret("push", "none", "noinst")
    /\ UNCHANGED <<drawn_ok, ts, dl, frame>>
    /\ UNCHANGED <<gui_instance, running, gui_thread, city_positions, screen,
                   action_log, update_queue, command_queue, thr, nthreads, pc_c,
                   cur, caller_exc, nenq, last_enq>>

\* update_game_state(game, action): game well-formed or not, action or None
CallPush ==
    /\ pc_c = "idle"
    /\ gui_instance
    /\ nenq < MaxPush
    /\ \E wf \in BOOLEAN, a \in BOOLEAN :
          cur' = [wf |-> wf, action |-> a, report |-> "skipped"]
    /\ pc_c' = "upd_check"
    /\ result' = NoResult
    /\ UNCHANGED <<drawn_ok, ts, dl, frame>>
    /\ UNCHANGED <<gui_instance, running, gui_thread, city_positions, screen,
                   action_log, update_queue, command_queue, thr, nthreads,
                   caller_exc, nenq, last_enq>>

UpdateGuardNoRunning == gui_thread # 0 /\ Alive(gui_thread)

\* not (not self.running or not self.gui_thread or not gui_thread.is_alive())
UpdateGuard == running /\ gui_thread # 0 /\ Alive(gui_thread)

\* the guard fails: return
UpdDropped ==
    /\ pc_c = "upd_check"
    /\ ~UpdateGuard
    /\ pc_c' = "idle"
    /\ result' = Ret("push", "none",
                      IF cur.wf THEN "dropped" ELSE "dropped_malformed")
    /\ cur' = NoCall
    /\ UNCHANGED <<drawn_ok, ts, dl, frame>>
    /\ UNCHANGED <<gui_instance, running, gui_thread, city_positions, screen,
                   action_log, update_queue, command_queue, thr, nthreads, caller_exc, nenq, last_enq>>

\* the guard passes: go on to build the snapshot
UpdAdmitted ==
    /\ pc_c = "upd_check"
    /\ UpdateGuard
    /\ pc_c' = "upd_build"
    /\ UNCHANGED <<drawn_ok, ts, dl, frame>>
    /\ UNCHANGED <<gui_instance, running, gui_thread, city_positions, screen,
                   action_log, update_queue, command_queue, thr, nthreads, cur,
                   result, caller_exc, nenq, last_enq>>

\* set_map_type: self.city_positions becomes one of the two coordinate tables
SetMapType == "table"

\* if not self.city_positions: self.set_map_type(game)
MapAfterBuild == IF city_positions = "empty" THEN SetMapType
                 ELSE city_positions

BuildUncaught == FALSE

\* the try/except Exception around the whole construction
BuildCaught == TRUE

\* the dict built from the game, with the formatted action when one is given
Snapshot(n, a) == [id |-> n, action |-> a]

\* the snapshot is built and put on update_queue
UpdBuildOk ==
    /\ pc_c = "upd_build"
    /\ cur.wf
    /\ city_positions' = MapAfterBuild
    /\ nenq' = nenq + 1
    /\ last_enq' = Snapshot(nenq + 1, cur.action)
    /\ update_queue' = Append(update_queue, Snapshot(nenq + 1, cur.action))
    /\ pc_c' = "idle"
    /\ result' = Ret("push", "none", "enqueued")
    /\ cur' = NoCall
    /\ UNCHANGED <<drawn_ok, ts, dl, frame>>
    /\ UNCHANGED <<gui_instance, running, gui_thread, screen, action_log,
                   command_queue, thr, nthreads, caller_exc>>

\* max() over an empty player list raises: caught, printed, nothing is put
UpdBuildFails ==
    /\ pc_c = "upd_build"
    /\ ~cur.wf
    /\ city_positions' = MapAfterBuild
    /\ caller_exc' = (caller_exc \/ ~BuildCaught)
    /\ pc_c' = "idle"
    /\ result' = Ret("push", "none", "failed")
    /\ cur' = NoCall
    /\ UNCHANGED <<drawn_ok, ts, dl, frame>>
    /\ UNCHANGED <<gui_instance, running, gui_thread, screen, action_log,
                   update_queue, command_queue, thr, nthreads, nenq,
                   last_enq>>

(* ------------------------------- stop() ------------------------------- *)

\* module-level shutdown with _gui_instance None: nothing happens
CallStopNoInstance ==
    /\ pc_c = "idle"
    /\ ~gui_instance
    /\ result' = Ret("stop", "none", "noinst")
    /\ UNCHANGED <<drawn_ok, ts, dl, frame>>
    /\ UNCHANGED <<gui_instance, running, gui_thread, city_positions, screen,
                   action_log, update_queue, command_queue, thr, nthreads, pc_c,
                   cur, caller_exc, nenq, last_enq>>

CallStop ==
    /\ pc_c = "idle"
    /\ gui_instance
    /\ cur' = NoCall
    /\ pc_c' = "sd_check"
    /\ result' = NoResult
    /\ UNCHANGED <<drawn_ok, ts, dl, frame>>
    /\ UNCHANGED <<gui_instance, running, gui_thread, city_positions, screen,
                   action_log, update_queue, command_queue, thr, nthreads,
                   caller_exc, nenq, last_enq>>

ShutdownUnguarded == TRUE

\* if self.running and self.gui_thread and self.gui_thread.is_alive()
ShutdownGuard == running /\ gui_thread # 0 /\ Alive(gui_thread)

SdCheck ==
    /\ pc_c = "sd_check"
    /\ pc_c' = IF ShutdownGuard THEN "sd_put" ELSE "sd_clear"
    /\ UNCHANGED <<drawn_ok, ts, dl, frame>>
    /\ UNCHANGED <<gui_instance, running, gui_thread, city_positions, screen,
                   action_log, update_queue, command_queue, thr, nthreads, cur,
                   result, caller_exc, nenq, last_enq>>

\* self.command_queue.put("quit")
SdPut ==
    /\ pc_c = "sd_put"
    /\ command_queue' = Append(command_queue, "quit")
    /\ pc_c' = "sd_join"
    /\ UNCHANGED <<drawn_ok, ts, dl, frame>>
    /\ UNCHANGED <<gui_instance, running, gui_thread, city_positions, screen,
                   action_log, update_queue, thr, nthreads, cur, result,
                   caller_exc, nenq, last_enq>>

JoinUntilDead(t) == ~Alive(t)

\* gui_thread.join(timeout=2.0) can return: the thread ended or 2.0 s elapsed
JoinMayReturn(t) == TRUE

SdJoin ==
    /\ pc_c = "sd_join"
    /\ JoinMayReturn(gui_thread)
    /\ pc_c' = "sd_report"
    /\ UNCHANGED <<drawn_ok, ts, dl, frame>>
    /\ UNCHANGED <<gui_instance, running, gui_thread, city_positions, screen,
                   action_log, update_queue, command_queue, thr, nthreads, cur,
                   result, caller_exc, nenq, last_enq>>

ReportAlwaysGraceful(alive) == "graceful"

\* if self.gui_thread.is_alive(): "did not terminate gracefully" else "... successfully"
Report(alive) == IF alive THEN "not_graceful" ELSE "graceful"

SdReport ==
    /\ pc_c = "sd_report"
    /\ cur' = [cur EXCEPT !.report = Report(Alive(gui_thread))]
    /\ pc_c' = "sd_clear"
    /\ UNCHANGED <<drawn_ok, ts, dl, frame>>
    /\ UNCHANGED <<gui_instance, running, gui_thread, city_positions, screen,
                   action_log, update_queue, command_queue, thr, nthreads,
                   result, caller_exc, nenq, last_enq>>

\* self.running = False, and shutdown returns
SdClear ==
    /\ pc_c = "sd_clear"
    /\ running' = FALSE
    /\ pc_c' = "idle"
    /\ result' = Ret("stop", "none", cur.report)
    /\ cur' = NoCall
    /\ UNCHANGED <<drawn_ok, ts, dl, frame>>
    /\ UNCHANGED <<gui_instance, gui_thread, city_positions, screen, action_log,
                   update_queue, command_queue, thr, nthreads, caller_exc,
                   nenq, last_enq>>

(* ======================= the _GUIThread render loop =================== *)

Step(t, p) == [thr EXCEPT ![t].pc = p]

\* pygame.display.set_mode + SysFont succeed: the drawing surface exists
T_SetMode(t) ==
    /\ thr[t].pc = "setmode"
    /\ screen' = "open"
    /\ thr' = Step(t, "setrunning")
    /\ UNCHANGED <<drawn_ok, ts, dl, frame>>
    /\ UNCHANGED <<gui_instance, running, gui_thread, city_positions,
                   action_log, update_queue, command_queue, nthreads, pc_c, cur,
                   result, caller_exc, nenq, last_enq>>

\* set_mode or SysFont raises: except Exception, then the finally block
T_SetModeFails(t) ==
    /\ thr[t].pc = "setmode"
    /\ thr' = [thr EXCEPT ![t].pc = "finally", ![t].exit = "init_fail"]
    /\ UNCHANGED <<drawn_ok, ts, dl, frame>>
    /\ UNCHANGED <<gui_instance, running, gui_thread, city_positions, screen,
                   action_log, update_queue, command_queue, nthreads, pc_c, cur,
                   result, caller_exc, nenq, last_enq>>

\* self.parent.running = True
T_SetRunning(t) ==
    /\ thr[t].pc = "setrunning"
    /\ running' = TRUE
    /\ thr' = Step(t, "setready")
    /\ UNCHANGED <<drawn_ok, ts, dl, frame>>
    /\ UNCHANGED <<gui_instance, gui_thread, city_positions, screen, action_log,
                   update_queue, command_queue, nthreads, pc_c, cur, result,
                   caller_exc, nenq, last_enq>>

\* self.ready.set()
T_SetReady(t) ==
    /\ thr[t].pc = "setready"
    /\ thr' = [thr EXCEPT ![t].pc = "idle", ![t].ready = TRUE]
    /\ UNCHANGED <<drawn_ok, ts, dl, frame>>
    /\ UNCHANGED <<gui_instance, running, gui_thread, city_positions, screen,
                   action_log, update_queue, command_queue, nthreads, pc_c, cur,
                   result, caller_exc, nenq, last_enq>>

\* screen.fill, _draw_initial_screen, display.flip: the idle frame
T_Idle(t) ==
    /\ thr[t].pc = "idle"
    /\ thr' = Step(t, "loop")
    /\ UNCHANGED <<drawn_ok, ts, dl, frame>>
    /\ UNCHANGED <<gui_instance, running, gui_thread, city_positions, screen,
                   action_log, update_queue, command_queue, nthreads, pc_c, cur,
                   result, caller_exc, nenq, last_enq>>

\* drawing the idle frame raises: except Exception, then the finally block
T_IdleFails(t) ==
    /\ thr[t].pc = "idle"
    /\ thr' = [thr EXCEPT ![t].pc = "finally", ![t].exit = "error"]
    /\ UNCHANGED <<drawn_ok, ts, dl, frame>>
    /\ UNCHANGED <<gui_instance, running, gui_thread, city_positions, screen,
                   action_log, update_queue, command_queue, nthreads, pc_c, cur,
                   result, caller_exc, nenq, last_enq>>

\* while self.parent.running
T_Loop(t) ==
    /\ thr[t].pc = "loop"
    /\ thr' = IF running
              THEN [thr EXCEPT ![t].pc = "events", ![t].iter_got = 0,
                               ![t].iter_draws = 0]
              ELSE [thr EXCEPT ![t].pc = "finally", ![t].exit = "normal",
                               ![t].iter_got = 0, ![t].iter_draws = 0]
    /\ UNCHANGED <<drawn_ok, ts, dl, frame>>
    /\ UNCHANGED <<gui_instance, running, gui_thread, city_positions, screen,
                   action_log, update_queue, command_queue, nthreads, pc_c, cur,
                   result, caller_exc, nenq, last_enq>>

HandleQuitIgnored == TRUE

\* _handle_quit: self.parent.running = False
HandleQuit == FALSE

\* for event in pygame.event.get(): no QUIT event is pending
T_EventsNone(t) ==
    /\ thr[t].pc = "events"
    /\ thr' = Step(t, "cmd")
    /\ UNCHANGED <<drawn_ok, ts, dl, frame>>
    /\ UNCHANGED <<gui_instance, running, gui_thread, city_positions, screen,
                   action_log, update_queue, command_queue, nthreads, pc_c, cur,
                   result, caller_exc, nenq, last_enq>>

\* a pygame.QUIT event (window close) is pending: _handle_quit()
T_EventsQuit(t) ==
    /\ thr[t].pc = "events"
    /\ running' = HandleQuit
    /\ thr' = Step(t, "cmd")
    /\ UNCHANGED <<drawn_ok, ts, dl, frame>>
    /\ UNCHANGED <<gui_instance, gui_thread, city_positions, screen, action_log,
                   update_queue, command_queue, nthreads, pc_c, cur, result,
                   caller_exc, nenq, last_enq>>

\* pygame.event.get() raises: the exception leaves the loop body
T_EventsError(t) ==
    /\ thr[t].pc = "events"
    /\ thr' = [thr EXCEPT ![t].pc = "finally", ![t].exit = "error"]
    /\ UNCHANGED <<drawn_ok, ts, dl, frame>>
    /\ UNCHANGED <<gui_instance, running, gui_thread, city_positions, screen,
                   action_log, update_queue, command_queue, nthreads, pc_c, cur,
                   result, caller_exc, nenq, last_enq>>

\* while not command_queue.empty(): nothing is pending
T_CmdEmpty(t) ==
    /\ thr[t].pc = "cmd"
    /\ command_queue = <<>>
    /\ thr' = Step(t, "upd")
    /\ UNCHANGED <<drawn_ok, ts, dl, frame>>
    /\ UNCHANGED <<gui_instance, running, gui_thread, city_positions, screen,
                   action_log, update_queue, command_queue, nthreads, pc_c, cur,
                   result, caller_exc, nenq, last_enq>>

CmdQuitSkipsDrain == "loop"

\* break: the command drain is left for the update drain of the same iteration
CmdQuitNext == "upd"

\* cmd = command_queue.get_nowait(); if cmd == "quit": _handle_quit(); break
T_CmdQuit(t) ==
    /\ thr[t].pc = "cmd"
    /\ command_queue # <<>>
    /\ Head(command_queue) = "quit"
    /\ command_queue' = Tail(command_queue)
    /\ running' = HandleQuit
    /\ thr' = Step(t, CmdQuitNext)
    /\ UNCHANGED <<drawn_ok, ts, dl, frame>>
    /\ UNCHANGED <<gui_instance, gui_thread, city_positions, screen, action_log,
                   update_queue, nthreads, pc_c, cur, result, caller_exc, nenq,
                   last_enq>>

PeekGet(q) == [item |-> Head(q), rest |-> q]

LifoGet(q) == [item |-> q[Len(q)], rest |-> SubSeq(q, 1, Len(q) - 1)]

\* queue.Queue.get_nowait() on a non-empty queue: first in, first out
QGet(q) == [item |-> Head(q), rest |-> Tail(q)]

AfterGetLastOnly(rest) == IF rest = <<>> THEN "draw" ELSE "upd"

\* self._update_display() follows every get_nowait(), inside the while loop
AfterGet(rest) == "draw"

\* self.game_state = self.parent.update_queue.get_nowait()
T_UpdGet(t) ==
    /\ thr[t].pc = "upd"
    /\ update_queue # <<>>
    /\ update_queue' = QGet(update_queue).rest
    /\ thr' = [thr EXCEPT ![t].pc = AfterGet(QGet(update_queue).rest),
                          ![t].game_state = QGet(update_queue).item,
                          ![t].iter_got = @ + 1]
    /\ UNCHANGED <<drawn_ok, ts, dl, frame>>
    /\ UNCHANGED <<gui_instance, running, gui_thread, city_positions, screen,
                   action_log, command_queue, nthreads, pc_c, cur, result,
                   caller_exc, nenq, last_enq>>

\* _draw_action: append the snapshot's action, evict the oldest past capacity
DrawAction(log, s) ==
    IF s.action
    THEN IF Len(log) + 1 > LogCapacity THEN Tail(Append(log, s.id))
         ELSE Append(log, s.id)
    ELSE log

\* _update_display: clear, draw map, routes, cities, players, action; flip
T_Draw(t) ==
    /\ thr[t].pc = "draw"
    /\ action_log' = DrawAction(action_log, thr[t].game_state)
    /\ drawn_ok' = IF thr[t].game_state.action
                   THEN Append(drawn_ok, thr[t].game_state.id)
                   ELSE drawn_ok
    /\ thr' = [thr EXCEPT ![t].pc = "upd", ![t].iter_draws = @ + 1]
    /\ UNCHANGED pure
    /\ UNCHANGED <<gui_instance, running, gui_thread, city_positions, screen,
                   update_queue, command_queue, nthreads, pc_c, cur, result,
                   caller_exc, nenq, last_enq>>

DrawErrorEscapes == "finally"

\* except Exception in _update_display: the error is printed, run() goes on
DrawErrorNext == "upd"

\* _update_display: screen.fill raises, caught and printed; frame skipped
T_DrawFails(t) ==
    /\ thr[t].pc = "draw"
    /\ thr' = [thr EXCEPT ![t].pc = DrawErrorNext, ![t].iter_draws = @ + 1,
                          ![t].exit = IF DrawErrorNext = "finally"
                                      THEN "error" ELSE @]
    /\ UNCHANGED <<drawn_ok, ts, dl, frame>>
    /\ UNCHANGED <<gui_instance, running, gui_thread, city_positions, screen,
                   action_log, update_queue, command_queue, nthreads, pc_c, cur,
                   result, caller_exc, nenq, last_enq>>

\* while not update_queue.empty(): the queue is drained; clock.tick(30)
T_UpdEmpty(t) ==
    /\ thr[t].pc = "upd"
    /\ update_queue = <<>>
    /\ thr' = Step(t, "loop")
    /\ UNCHANGED <<drawn_ok, ts, dl, frame>>
    /\ UNCHANGED <<gui_instance, running, gui_thread, city_positions, screen,
                   action_log, update_queue, command_queue, nthreads, pc_c, cur,
                   result, caller_exc, nenq, last_enq>>

RunningLeftAsIs(r) == r

\* finally: self.parent.running = False, whatever it was
RunningAfterFinally(r) == FALSE

\* finally: self.parent.running = False; pygame.quit(); run() returns
T_Finally(t) ==
    /\ thr[t].pc = "finally"
    /\ running' = RunningAfterFinally(running)
    /\ screen' = "closed"
    /\ thr' = Step(t, "dead")
    /\ UNCHANGED <<drawn_ok, ts, dl, frame>>
    /\ UNCHANGED <<gui_instance, gui_thread, city_positions, action_log,
                   update_queue, command_queue, nthreads, pc_c, cur, result,
                   caller_exc, nenq, last_enq>>

(* ========================== specifications ============================ *)

CallerCall ==
    \/ Construct
    \/ CallStart
    \/ CallPushNoInstance
    \/ CallPush
    \/ CallStopNoInstance
    \/ CallStop

CallerProgress ==
    \/ InitAlready
    \/ InitSpawn
    \/ InitSpawnFails
    \/ InitWaitReady
    \/ InitWaitTimeout
    \/ UpdDropped
    \/ UpdAdmitted
    \/ UpdBuildOk
    \/ UpdBuildFails
    \/ SdCheck
    \/ SdPut
    \/ SdJoin
    \/ SdReport
    \/ SdClear

ThreadStep(t) ==
    \/ T_SetMode(t)
    \/ T_SetModeFails(t)
    \/ T_SetRunning(t)
    \/ T_SetReady(t)
    \/ T_Idle(t)
    \/ T_IdleFails(t)
    \/ T_Loop(t)
    \/ T_EventsNone(t)
    \/ T_EventsQuit(t)
    \/ T_EventsError(t)
    \/ T_CmdEmpty(t)
    \/ T_CmdQuit(t)
    \/ T_UpdGet(t)
    \/ T_Draw(t)
    \/ T_DrawFails(t)
    \/ T_UpdEmpty(t)
    \/ T_Finally(t)

Next ==
    \/ CallerCall
    \/ CallerProgress
    \/ \E t \in Threads : ThreadStep(t)

Spec == Init /\ [][Next]_vars

\* the caller thread is scheduled; the render thread may stall for ever
FairCaller == Spec /\ WF_vars(CallerProgress)

\* every render thread is scheduled; the caller may stay in a call for ever
FairThreads == Spec /\ \A t \in Threads : WF_vars(ThreadStep(t))

(* ---------------- the action log over a long running game -------------- *)

\* the state after initialise() returned True and the idle frame was drawn
InitLog ==
    /\ drawn_ok = <<>>
    /\ ts = Off
    /\ dl = Off
    /\ frame = Off
    /\ gui_instance = TRUE
    /\ running = TRUE
    /\ gui_thread = 1
    /\ city_positions = "empty"
    /\ screen = "open"
    /\ action_log = <<>>
    /\ update_queue = <<>>
    /\ command_queue = <<>>
    /\ thr = [t \in Threads |->
                IF t = 1 THEN [NewThread EXCEPT !.pc = "loop", !.ready = TRUE]
                ELSE NewThread]
    /\ nthreads = 1
    /\ pc_c = "idle"
    /\ cur = NoCall
    /\ result = Ret("start", "true", "spawn")
    /\ caller_exc = FALSE
    /\ nenq = 0
    /\ last_enq = NoState

\* update_game_state(game, action) with a well-formed game and an action
LogPush ==
    /\ pc_c = "idle"
    /\ gui_instance
    /\ nenq < MaxLogPush
    /\ Len(update_queue) < MaxBacklog
    /\ cur' = [wf |-> TRUE, action |-> TRUE, report |-> "skipped"]
    /\ pc_c' = "upd_check"
    /\ result' = NoResult
    /\ UNCHANGED <<drawn_ok, ts, dl, frame>>
    /\ UNCHANGED <<gui_instance, running, gui_thread, city_positions, screen,
                   action_log, update_queue, command_queue, thr, nthreads,
                   caller_exc, nenq, last_enq>>

\* frames of thread t that raised so far (every snapshot here has an action)
BadFrames(t) ==
    thr[t].game_state.id - (IF thr[t].pc = "draw" THEN 1 ELSE 0) - Len(drawn_ok)

\* _update_display raises, at most MaxBadFrames times
LogDrawFails(t) ==
    /\ BadFrames(t) < MaxBadFrames
    /\ T_DrawFails(t)

LogThreadStep(t) ==
    \/ T_Loop(t)
    \/ T_EventsNone(t)
    \/ T_CmdEmpty(t)
    \/ T_UpdGet(t)
    \/ T_Draw(t)
    \/ LogDrawFails(t)
    \/ T_UpdEmpty(t)

NextLog ==
    \/ LogPush
    \/ UpdAdmitted
    \/ UpdBuildOk
    \/ \E t \in Threads : LogThreadStep(t)

SpecLog == InitLog /\ [][NextLog]_vars

(* ================== graph.visualize_mcts_tree (pure) =================== *)

\* the pipeline before any call, while a pure routine is examined
PipelineInit ==
    /\ drawn_ok = <<>>
    /\ gui_instance = FALSE
    /\ running = FALSE
    /\ gui_thread = 0
    /\ city_positions = "empty"
    /\ screen = "none"
    /\ action_log = <<>>
    /\ update_queue = <<>>
    /\ command_queue = <<>>
    /\ thr = [t \in Threads |-> NewThread]
    /\ nthreads = 0
    /\ pc_c = "idle"
    /\ cur = NoCall
    /\ result = NoResult
    /\ caller_exc = FALSE
    /\ nenq = 0
    /\ last_enq = NoState

Min2(a, b) == IF a < b THEN a ELSE b
Max2(a, b) == IF a > b THEN a ELSE b

\* <<visits, value>> of the root handed to the sampler
RootStat == <<10, 6>>

\* <<visits, value>> of the other nodes
NodeStats == {<<5, 4>>, <<3, 1>>, <<0, 0>>}

\* node.children of every node as a parent vector; node 1 is the root and the
\* nodes are numbered in breadth-first order, so the children of a node are in
\* their original order by ascending number
TreeShapes(n) ==
    {par \in [1..n -> 0..n] :
        /\ par[1] = 0
        /\ \A i \in 2..n : par[i] \in 1..(i - 1)
        /\ \A i \in 3..n : par[i - 1] <= par[i]}

\* node.children, in original order
Children(par, p) ==
    LET kids == {i \in DOMAIN par : par[i] = p}
    IN  [k \in 1..Cardinality(kids) |->
            CHOOSE i \in kids : Cardinality({j \in kids : j < i}) = k - 1]

\* n.value / n.visits if n.visits > 0 else 0.0, as numerator and denominator
MeanNum(st) == IF st[1] > 0 THEN st[2] ELSE 0
MeanDen(st) == IF st[1] > 0 THEN st[1] ELSE 1

Ascending(a, b) == MeanNum(a) * MeanDen(b) < MeanNum(b) * MeanDen(a)

\* reverse=True: a child with the larger key comes first
Descending(a, b) == MeanNum(a) * MeanDen(b) > MeanNum(b) * MeanDen(a)

\* sorted(node.children, key=mean, reverse=True): stable, so children with
\* equal keys keep their original order
SortedChildren(par, st, p) ==
    LET cs == Children(par, p)
        n == Len(cs)
        before(j, i) == \/ Descending(st[cs[j]], st[cs[i]])
                        \/ /\ ~Descending(st[cs[j]], st[cs[i]])
                           /\ ~Descending(st[cs[i]], st[cs[j]])
                           /\ j < i
        rank(i) == 1 + Cardinality({j \in 1..n : before(j, i)})
    IN  [k \in 1..n |-> cs[CHOOSE i \in 1..n : rank(i) = k]]

\* random.sample(population, k): k distinct elements in any order
Samples(population, k) ==
    IF k = 0 THEN {<<>>}
    ELSE {s \in [1..k -> {population[i] : i \in DOMAIN population}] :
             \A i, j \in 1..k : i # j => s[i] # s[j]}

\* the number asked of random.sample
SampleSize(K, n) == Min2(K - TopCount, n - TopCount)

TooManyNever(n, K) == FALSE

\* if len(sorted_children) > max_children_per_node
TooMany(n, K) == n > K

\* the values selected_children can take
Selections(sorted, K) ==
    IF TooMany(Len(sorted), K)
    THEN {SubSeq(sorted, 1, Min2(TopCount, Len(sorted))) \o rest :
             rest \in Samples(SubSeq(sorted, TopCount + 1, Len(sorted)),
                              SampleSize(K, Len(sorted)))}
    ELSE {sorted}

DepthNeverReached(depth, D) == FALSE

DepthExceeded(depth, D) == depth > D

\* if depth >= max_depth: continue
DepthReached(depth, D) == depth >= D

\* f"{value:.2f}": the mean in hundredths, rounded to the nearest
Fmt2(num, den) == (200 * num + den) \div (2 * den)

AtLeast(num, den, tenths) == 10 * num >= tenths * den

\* value_ratio > 0.8, > 0.6, > 0.4, > 0.2
Above(num, den, tenths) == 10 * num > tenths * den

\* the colour of a child node from min(1.0, max(0.0, value / max(1, visits)))
Colour(st) ==
    IF st[1] > 0
    THEN LET den == Max2(1, st[1])
             num == Min2(den, Max2(0, st[2]))
         IN  IF Above(num, den, 8) THEN "red"
             ELSE IF Above(num, den, 6) THEN "salmon"
             ELSE IF Above(num, den, 4) THEN "lightcoral"
             ELSE IF Above(num, den, 2) THEN "mistyrose"
             ELSE "white"
    ELSE "white"

\* G.add_node(id(root), label=..., colour="lightblue")
RootAttr(st) ==
    [visits |-> st[1], mean100 |-> Fmt2(MeanNum(st), MeanDen(st)),
     colour |-> "lightblue"]

\* G.add_node(id(child), label=..., colour=colour)
ChildAttr(st) ==
    [visits |-> st[1], mean100 |-> Fmt2(MeanNum(st), MeanDen(st)),
     colour |-> Colour(st)]

\* for child in selected_children: G.add_node(...)
AddNodes(G, st, sel) ==
    LET new == {sel[i] : i \in DOMAIN sel}
    IN  [n \in DOMAIN G \cup new |-> IF n \in new THEN ChildAttr(st[n]) ELSE G[n]]

\* the call visualize_mcts_tree(root, D, K) after G.add_node(id(root), ...)
InitTree ==
    /\ PipelineInit
    /\ dl = Off
    /\ frame = Off
    /\ \E n \in 1..MaxNodes, D \in 0..MaxD, K \in 1..MaxK :
         \E par \in TreeShapes(n) :
           \E st \in [1..n -> NodeStats \cup {RootStat}] :
              /\ st[1] = RootStat
              /\ \A i \in 2..n : st[i] \in NodeStats
              /\ ts = [pc |-> "bfs", par |-> par, st |-> st, D |-> D, K |-> K,
                       todo |-> << <<1, 0>> >>,
                       G |-> [i \in {1} |-> RootAttr(st[1])],
                       E |-> {}, expanded |-> {}]

\* node, depth = nodes_to_process.pop(0); depth >= max_depth: continue
TS_Skip ==
    /\ ts.pc = "bfs"
    /\ ts.todo # <<>>
    /\ DepthReached(Head(ts.todo)[2], ts.D)
    /\ ts' = [ts EXCEPT !.todo = Tail(@)]
    /\ UNCHANGED <<pipeline, dl, frame>>

\* the node is expanded: its children are sorted, selected, added to G with
\* their edges and appended to nodes_to_process
TS_Expand ==
    /\ ts.pc = "bfs"
    /\ ts.todo # <<>>
    /\ ~DepthReached(Head(ts.todo)[2], ts.D)
    /\ LET node == Head(ts.todo)[1]
           depth == Head(ts.todo)[2]
           sorted == SortedChildren(ts.par, ts.st, node)
       IN  /\ ~(TooMany(Len(sorted), ts.K) /\ SampleSize(ts.K, Len(sorted)) < 0)
           /\ \E sel \in Selections(sorted, ts.K) :
                ts' = [ts EXCEPT
                         !.todo = Tail(@) \o [i \in 1..Len(sel) |-> <<sel[i], depth + 1>>],
                         !.G = AddNodes(@, ts.st, sel),
                         !.E = @ \cup {<<node, sel[i]>> : i \in 1..Len(sel)},
                         !.expanded = @ \cup {node}]
    /\ UNCHANGED <<pipeline, dl, frame>>

\* random.sample is asked for a negative number: ValueError leaves the call
TS_SampleError ==
    /\ ts.pc = "bfs"
    /\ ts.todo # <<>>
    /\ ~DepthReached(Head(ts.todo)[2], ts.D)
    /\ LET n == Len(Children(ts.par, Head(ts.todo)[1]))
       IN  TooMany(n, ts.K) /\ SampleSize(ts.K, n) < 0
    /\ ts' = [ts EXCEPT !.pc = "error"]
    /\ UNCHANGED <<pipeline, dl, frame>>

\* while nodes_to_process: the queue is empty, G is complete
TS_Done ==
    /\ ts.pc = "bfs"
    /\ ts.todo = <<>>
    /\ ts' = [ts EXCEPT !.pc = "done"]
    /\ UNCHANGED <<pipeline, dl, frame>>

NextTree ==
    \/ TS_Skip
    \/ TS_Expand
    \/ TS_SampleError
    \/ TS_Done

SpecTree == InitTree /\ [][NextTree]_vars

\* node.children of every node as a parent vector that need not be a tree:
\* the root may be the child of a node (a cycle through the root), a node
\* may be its own child, and a chain may be deeper than max_depth
LinkedShapes(n) == [1..n -> 0..n]

\* the call visualize_mcts_tree(root, D, K) on such a structure
InitCyc ==
    /\ PipelineInit
    /\ dl = Off
    /\ frame = Off
    /\ \E n \in 1..MaxCycNodes, D \in 0..MaxD, K \in 1..MaxK :
         \E par \in LinkedShapes(n) :
           \E st \in [1..n -> NodeStats \cup {RootStat}] :
              /\ st[1] = RootStat
              /\ \A i \in 2..n : st[i] \in NodeStats
              /\ ts = [pc |-> "bfs", par |-> par, st |-> st, D |-> D, K |-> K,
                       todo |-> << <<1, 0>> >>,
                       G |-> [i \in {1} |-> RootAttr(st[1])],
                       E |-> {}, expanded |-> {}]

\* the call runs on: the interpreter keeps executing the loop
FairCyc == InitCyc /\ [][NextTree]_vars /\ WF_vars(NextTree)

(* ==================== _draw_dashed_line (pure) ========================= *)

\* the pixel coordinates the endpoints are drawn from
Coords == {0 - 9, 0, 7, 20, 36}

Points == Coords \X Coords

\* dx**2 + dy**2
SquaredLength(p1, p2) ==
    (p2[1] - p1[1]) * (p2[1] - p1[1]) + (p2[2] - p1[2]) * (p2[2] - p1[2])

\* int(distance / segment_length) with distance = max(1, sqrt(dx**2 + dy**2)):
\* the largest m with m * segment_length <= distance
MaxPossibleSegments(p1, p2) ==
    LET S == Max2(1, SquaredLength(p1, p2))
        u == FixedDash + FixedSpace
    IN  CHOOSE m \in 0..S : /\ m * u * m * u <= S
                            /\ (m + 1) * u * (m + 1) * u > S

ActualSegmentsUnclamped(N, m) == Min2(N, m)

\* actual_segments = max(1, min(num_segments, max_possible_segments))
ActualSegments(N, m) == Max2(1, Min2(N, m))

\* total_length, in the units of the fixed lengths
TotalLength(n) == n * FixedDash + (n - 1) * FixedSpace

\* int() of the quotient num / den, den > 0: truncation towards zero
Trunc(num, den) ==
    IF num >= 0 THEN num \div den ELSE 0 - ((0 - num) \div den)

\* the values int(x) can take after x was advanced k units along a line of
\* total units from a to b: x is a float sum of rounded terms, so where the
\* exact position is a whole number the float may lie just short of it
IntAt(a, b, k, total) ==
    LET num == a * total + (b - a) * k
        v == Trunc(num, total)
    IN  IF k > 0 /\ b # a /\ num % total = 0 /\ v # 0
        THEN {v, IF v > 0 THEN v - 1 ELSE v + 1}
        ELSE {v}

\* the values (int(x), int(y)) can take k units along the line
PixelAt(p1, p2, k, total) ==
    IntAt(p1[1], p2[1], k, total) \X IntAt(p1[2], p2[2], k, total)

LastDashEndComputed(end_pos, computed) == computed

\* pygame.draw.line(screen, colour, dash_start, end_pos, 2)
LastDashEnd(end_pos, computed) == end_pos

\* the call _draw_dashed_line(start_pos, end_pos, colour, num_segments) up to
\* x, y = start_pos
InitDash ==
    /\ PipelineInit
    /\ ts = Off
    /\ frame = Off
    /\ \E p1 \in Points, p2 \in Points, N \in (0 - 1)..MaxSeg :
          dl = [pc |-> "loop", p1 |-> p1, p2 |-> p2, N |-> N,
                n |-> ActualSegments(N, MaxPossibleSegments(p1, p2)),
                i |-> 0, k |-> 0, dashes |-> <<>>]

\* one pass of for i in range(actual_segments - 1): a dash, then a space
DL_Dash ==
    /\ dl.pc = "loop"
    /\ dl.i < dl.n - 1
    /\ LET total == TotalLength(dl.n)
       IN  \E a \in PixelAt(dl.p1, dl.p2, dl.k, total),
              b \in PixelAt(dl.p1, dl.p2, dl.k + FixedDash, total) :
                dl' = [dl EXCEPT !.dashes = Append(@, <<a, b>>),
                                 !.k = @ + FixedDash + FixedSpace,
                                 !.i = @ + 1]
    /\ UNCHANGED <<pipeline, ts, frame>>

\* the loop is over; if actual_segments > 0 the last dash is drawn to end_pos
DL_Last ==
    /\ dl.pc = "loop"
    /\ dl.i >= dl.n - 1
    /\ LET total == TotalLength(dl.n)
       IN  IF dl.n > 0
           THEN \E a \in PixelAt(dl.p1, dl.p2, dl.k, total),
                   b \in PixelAt(dl.p1, dl.p2, dl.k + FixedDash, total) :
                     dl' = [dl EXCEPT !.dashes = Append(@, <<a, LastDashEnd(dl.p2, b)>>),
                                      !.pc = "done"]
           ELSE dl' = [dl EXCEPT !.pc = "done"]
    /\ UNCHANGED <<pipeline, ts, frame>>

NextDash ==
    \/ DL_Dash
    \/ DL_Last

SpecDash == InitDash /\ [][NextDash]_vars

(* ============ action labels: graph.py and format_action =============== *)

Cities == {"Oslo", "Rome"}
Cards == {"deck", "wild", "red"}

\* the action tuples of the game, the player name last; <<>> is None
GameActions ==
    {<<>>}
    \cup {<<"claim_route", a, b, "red", "Ann">> : a \in Cities, b \in Cities}
    \cup {<<"draw_two_train_cards", 0, c1, 0, c2, "Ann">> :
             c1 \in Cards, c2 \in Cards}
    \cup {<<"draw_destination_tickets", k1, k2, k3, "Ann">> :
             k1 \in 0..MaxTicketCount, k2 \in 0..MaxTicketCount,
             k3 \in 0..MaxTicketCount}

\* sum(child.action[1:3]): the elements at indices 1 and 2
SliceSum(a) == a[2] + a[3]

\* the edge label visualize_mcts_tree gives the action of a child
EdgeLabel(a) ==
    IF a = <<>> THEN <<"No action">>
    ELSE IF a[1] = "claim_route" THEN <<"Claim", a[2], a[3]>>
    ELSE IF a[1] = "draw_two_train_cards" THEN <<"Draw Cards">>
    ELSE <<"Draw Dest", SliceSum(a)>>

\* kept_count = action[1] + action[2] + action[3]
KeptCount(a) == a[2] + a[3] + a[4]

\* format_action(action)
FormatAction(a) ==
    IF a = <<>> THEN <<"No action">>
    ELSE LET player_name == a[Len(a)]
         IN  IF a[1] = "claim_route"
             THEN <<player_name, "claimed route", a[2], a[3], a[4]>>
             ELSE IF a[1] = "draw_two_train_cards"
             THEN LET card1 == a[3]
                      card2 == a[5]
                  IN  IF card1 = "wild" THEN <<player_name, "drew 1", card1>>
                      ELSE IF card1 = "deck" /\ card2 = "deck"
                      THEN <<player_name, "drew 2 cards from deck">>
                      ELSE IF card1 = "deck"
                      THEN <<player_name, "drew 1 card from deck and 1", card2>>
                      ELSE IF card2 = "deck"
                      THEN <<player_name, "drew 1", card1, "and 1 card from deck">>
                      ELSE IF card1 = card2
                      THEN <<player_name, "drew 2", card1>>
                      ELSE <<player_name, "drew 1", card1, "and 1", card2>>
             ELSE IF a[1] = "draw_destination_tickets"
             THEN <<player_name, "drew destination tickets and kept",
                    KeptCount(a)>>
             ELSE <<player_name, a>>

\* one action about to be labelled by the tree sampler and by the action log
InitLabel ==
    /\ PipelineInit
    /\ ts = Off
    /\ dl = Off
    /\ \E a \in GameActions :
          frame = [pc |-> "label", action |-> a, edge |-> <<>>, text |-> <<>>]

\* visualize_mcts_tree formats the action of a child for its edge
LB_EdgeLabel ==
    /\ frame.pc = "label"
    /\ frame.edge = <<>>
    /\ frame' = [frame EXCEPT !.edge = EdgeLabel(frame.action)]
    /\ UNCHANGED <<pipeline, ts, dl>>

\* update_game_state formats the same action for the action log
LB_FormatAction ==
    /\ frame.pc = "label"
    /\ frame.text = <<>>
    /\ frame' = [frame EXCEPT !.text = FormatAction(frame.action)]
    /\ UNCHANGED <<pipeline, ts, dl>>

NextLabel ==
    \/ LB_EdgeLabel
    \/ LB_FormatAction

SpecLabel == InitLabel /\ [][NextLabel]_vars

(* ====== parallel routes: _draw_map and _draw_player_routes ============= *)

\* the order of claims[] for one connection: players by index, and the
\* claims of one player in the order of its claimed_connections
ClaimOrders(claimant) ==
    LET claimed == {v \in DOMAIN claimant : claimant[v] # 0}
        n == Cardinality(claimed)
    IN  {s \in [1..n -> claimed] :
            /\ \A i, j \in 1..n : i # j => s[i] # s[j]
            /\ \A i, j \in 1..n : i < j => claimant[s[i]] <= claimant[s[j]]}

\* _draw_map: offset = 5 if i == 0 else -5 when len(route_infos) > 1
MapOffset(i, nvar) ==
    IF nvar > 1 THEN (IF i = 1 THEN RouteOffset ELSE 0 - RouteOffset) ELSE 0

\* _draw_player_routes: offset = 0 for a single claim, else 5 if idx == 0
\* else -5
ClaimOffset(idx, nclaims) ==
    IF nclaims = 1 THEN 0
    ELSE IF idx = 1 THEN RouteOffset ELSE 0 - RouteOffset

\* one frame of one connection with one or two route variants, each
\* unclaimed (0) or claimed by a player (1..MaxPlayers)
InitOffsets ==
    /\ PipelineInit
    /\ ts = Off
    /\ dl = Off
    /\ \E nvar \in 1..2 :
         \E claimant \in [1..nvar -> 0..MaxPlayers] :
           \E claims \in ClaimOrders(claimant) :
              frame = [pc |-> "offsets", nvar |-> nvar, claimant |-> claimant,
                       claims |-> claims, mi |-> 1, ci |-> 1, drawn |-> {}]

\* _draw_map, one pass of for i, route_info in enumerate(route_infos): a
\* claimed variant is skipped, an unclaimed one is drawn at its offset
OF_MapVariant ==
    /\ frame.pc = "offsets"
    /\ frame.mi <= frame.nvar
    /\ frame' = [frame EXCEPT
                   !.mi = @ + 1,
                   !.drawn = IF frame.claimant[frame.mi] # 0 THEN @
                             ELSE @ \cup {[variant |-> frame.mi, by |-> "map",
                                           offset |-> MapOffset(frame.mi, frame.nvar)]}]
    /\ UNCHANGED <<pipeline, ts, dl>>

\* _draw_player_routes, one pass of for idx, ... in enumerate(claims), after
\* _draw_map has finished
OF_RouteClaim ==
    /\ frame.pc = "offsets"
    /\ frame.mi > frame.nvar
    /\ frame.ci <= Len(frame.claims)
    /\ frame' = [frame EXCEPT
                   !.ci = @ + 1,
                   !.drawn = @ \cup {[variant |-> frame.claims[frame.ci],
                                      by |-> "routes",
                                      offset |-> ClaimOffset(frame.ci,
                                                             Len(frame.claims))]}]
    /\ UNCHANGED <<pipeline, ts, dl>>

NextOffsets ==
    \/ OF_MapVariant
    \/ OF_RouteClaim

SpecOffsets == InitOffsets /\ [][NextOffsets]_vars

(* ------- update_game_state: connections and route information -------- *)
\* city names are strings, here sequences of code points; the names of the
\* two maps hold letters, spaces and dots, never a "-"
NameChars == {65, 66}

CityNames == UNION {[1..n -> NameChars] : n \in 1..MaxNameLen}

\* city1 < city2 on strings: the first differing code point decides, a
\* proper prefix is smaller
StrLess(a, b) ==
    \E i \in 1..Len(b) :
        /\ \A j \in 1..(i - 1) : j <= Len(a) /\ a[j] = b[j]
        /\ (i > Len(a) \/ (i <= Len(a) /\ a[i] < b[i]))

ListedAlways(city1, city2) == TRUE

\* if city1 < city2: only add each connection once
Listed(city1, city2) == StrLess(city1, city2)

\* route_key = f"{city1}-{city2}"
RouteKey(city1, city2) == city1 \o <<Hyphen>> \o city2

\* the route variants route_lookup may return for a pair of cities
RouteLists ==
    {<<[colour |-> "red", length |-> 1, claimed_by |-> "None"]>>,
     <<[colour |-> "red", length |-> 1, claimed_by |-> "None"],
       [colour |-> "blue", length |-> 2, claimed_by |-> "Ann"]>>}

\* route_infos: one dict of colour, length and claimed_by per route
RouteInfos(routes) ==
    [i \in 1..Len(routes) |->
        [colour |-> routes[i].colour, length |-> routes[i].length,
         claimed_by |-> routes[i].claimed_by]]

\* game_state["route_info"][route_key] = route_infos
DictSet(d, key, value) ==
    [k \in DOMAIN d \cup {key} |-> IF k = key THEN value ELSE d[k]]

\* the mappings game.routes may be: up to MaxArcs entries city1 -> city2,
\* a mapping holding each key once
ArcSets ==
    UNION {{{f[i] : i \in 1..n} : f \in [1..n -> CityNames \X CityNames]} :
              n \in 0..MaxArcs}

\* game.routes as its set of city1 -> city2 entries, with what
\* route_lookup returns for each; the snapshot starts with no connection
\* and no route information
InitConn ==
    /\ PipelineInit
    /\ ts = Off
    /\ dl = Off
    /\ \E arcs \in ArcSets :
         \E lookup \in [arcs -> RouteLists] :
            frame = [pc |-> "conn", todo |-> arcs, route_lookup |-> lookup,
                     connections |-> <<>>, skipped |-> 0,
                     route_info |-> <<>>]

\* one pass of for city2 in destinations with city1 < city2; the mapping is
\* walked in its insertion order, which the game decides
CN_Listed ==
    /\ frame.pc = "conn"
    /\ \E arc \in frame.todo :
         /\ Listed(arc[1], arc[2])
         /\ frame' = [frame EXCEPT
                        !.todo = @ \ {arc},
                        !.connections = Append(@, arc),
                        !.route_info =
                            DictSet(@, RouteKey(arc[1], arc[2]),
                                    RouteInfos(frame.route_lookup[arc]))]
    /\ UNCHANGED <<pipeline, ts, dl>>

\* one pass of for city2 in destinations with city1 >= city2: nothing added
CN_Skipped ==
    /\ frame.pc = "conn"
    /\ \E arc \in frame.todo :
         /\ ~Listed(arc[1], arc[2])
         /\ frame' = [frame EXCEPT !.todo = @ \ {arc}, !.skipped = @ + 1]
    /\ UNCHANGED <<pipeline, ts, dl>>

NextConn ==
    \/ CN_Listed
    \/ CN_Skipped

SpecConn == InitConn /\ [][NextConn]_vars

(* ------------ update_game_state: copies of the live objects ----------- *)
\* The game's mutable objects live in a heap, a sequence indexed by object
\* address: the hand mapping of a player, the destination list and the
\* claimed-connection list.  A snapshot holds plain values (points, a
\* route's claimed_by) and the addresses of the objects it refers to.
SameObject(a, fresh) == a

\* dict(x), list(x) and a list comprehension build a new object
NewObject(a, fresh) == fresh

\* list(conn): a list of the elements of a connection
ListOf(conn) == [i \in 1..Len(conn) |-> conn[i]]

\* the contents a snapshot shows when its addresses are followed
Resolve(heap, snap) ==
    [points |-> snap.points,
     train_cards |-> heap[snap.train_cards],
     destinations |-> heap[snap.destinations],
     claimed_connections |-> heap[snap.claimed_connections],
     claimed_by |-> snap.claimed_by]

\* what the game object shows now
Live(f) ==
    Resolve(f.heap, [points |-> f.points,
                     train_cards |-> f.player.train_cards,
                     destinations |-> f.player.destinations,
                     claimed_connections |-> f.player.claimed_connections,
                     claimed_by |-> f.claimed_by])

\* one player with an empty hand, no destination, no claim and no points,
\* and one unclaimed route; nothing pushed
InitCopy ==
    /\ PipelineInit
    /\ ts = Off
    /\ dl = Off
    /\ frame = [pc |-> "copy",
                heap |-> <<[c \in {"red", "wild"} |-> 0], <<>>, <<>>>>,
                player |-> [train_cards |-> 1, destinations |-> 2,
                            claimed_connections |-> 3],
                points |-> 0, claimed_by |-> "None",
                queue |-> <<>>, sent |-> <<>>,
                game_state |-> <<>>, applied |-> <<>>,
                pushes |-> 0, edits |-> 0]

\* update_game_state: player_dict and the route information, then
\* update_queue.put(game_state); sent records what the game showed then
CP_Push ==
    /\ frame.pc = "copy"
    /\ frame.pushes < MaxPush
    /\ LET h == frame.heap
           n == Len(h)
           p == frame.player
           snap == [points |-> frame.points,
                    train_cards |-> NewObject(p.train_cards, n + 1),
                    destinations |-> NewObject(p.destinations, n + 2),
                    claimed_connections |->
                        NewObject(p.claimed_connections, n + 3),
                    claimed_by |-> frame.claimed_by]
           h2 == h \o <<h[p.train_cards], h[p.destinations],
                        [i \in 1..Len(h[p.claimed_connections]) |->
                            ListOf(h[p.claimed_connections][i])]>>
       IN  frame' = [frame EXCEPT
                       !.heap = h2,
                       !.queue = Append(@, snap),
                       !.sent = Append(@, Resolve(h2, snap)),
                       !.pushes = @ + 1]
    /\ UNCHANGED <<pipeline, ts, dl>>

\* the game changes the hand mapping of the player in place
CP_DrawCard ==
    /\ frame.pc = "copy"
    /\ frame.edits < MaxEdits
    /\ \E c \in {"red", "wild"} :
         frame' = [frame EXCEPT
                     !.heap[frame.player.train_cards][c] = @ + 1,
                     !.edits = @ + 1]
    /\ UNCHANGED <<pipeline, ts, dl>>

\* the game appends to the destination list of the player in place
CP_KeepDestination ==
    /\ frame.pc = "copy"
    /\ frame.edits < MaxEdits
    /\ frame' = [frame EXCEPT
                   !.heap[frame.player.destinations] = Append(@, "ticket"),
                   !.edits = @ + 1]
    /\ UNCHANGED <<pipeline, ts, dl>>

\* the game appends to the claimed-connection list of the player in place
CP_ClaimConnection ==
    /\ frame.pc = "copy"
    /\ frame.edits < MaxEdits
    /\ frame' = [frame EXCEPT
                   !.heap[frame.player.claimed_connections] =
                       Append(@, <<"Oslo", "Rome">>),
                   !.edits = @ + 1]
    /\ UNCHANGED <<pipeline, ts, dl>>

\* the game changes the score of the player
CP_Score ==
    /\ frame.pc = "copy"
    /\ frame.edits < MaxEdits
    /\ frame' = [frame EXCEPT !.points = @ + 1, !.edits = @ + 1]
    /\ UNCHANGED <<pipeline, ts, dl>>

\* the game sets the claimant of the route
CP_SetClaimant ==
    /\ frame.pc = "copy"
    /\ frame.edits < MaxEdits
    /\ \E who \in {"Ann", "Bob"} \ {frame.claimed_by} :
         frame' = [frame EXCEPT !.claimed_by = who, !.edits = @ + 1]
    /\ UNCHANGED <<pipeline, ts, dl>>

\* the render loop: self.game_state = update_queue.get_nowait()
CP_Apply ==
    /\ frame.pc = "copy"
    /\ frame.queue # <<>>
    /\ frame' = [frame EXCEPT
                   !.game_state = <<Head(frame.queue)>>,
                   !.applied = <<Head(frame.sent)>>,
                   !.queue = Tail(@),
                   !.sent = Tail(@)]
    /\ UNCHANGED <<pipeline, ts, dl>>

NextCopy ==
    \/ CP_Push
    \/ CP_DrawCard
    \/ CP_KeepDestination
    \/ CP_ClaimConnection
    \/ CP_Score
    \/ CP_SetClaimant
    \/ CP_Apply

SpecCopy == InitCopy /\ [][NextCopy]_vars

(* ============================== claims ================================ *)

UpdPcs == {"upd_check", "upd_build"}
SdPcs == {"sd_check", "sd_put", "sd_join", "sd_report", "sd_clear"}

\* the step in which thread t finds update_queue empty and ends its drain
DrainEnds(t) == thr[t].pc = "upd" /\ thr'[t].pc = "loop"

\* C1: last-write-wins. When the render loop ends a drain in which it took at
\* least one snapshot, its game_state is the snapshot enqueued last before
\* that moment, never an earlier one.
C1_LastWriteWins ==
    [][\A t \in Threads :
          (DrainEnds(t) /\ thr[t].iter_got > 0)
              => thr'[t].game_state = last_enq]_vars

\* a drain that took two snapshots has ended with the second one displayed
C1_Witness ==
    \E t \in Threads :
        /\ thr[t].pc = "loop"
        /\ thr[t].iter_got >= 2
        /\ update_queue = <<>>
        /\ thr[t].game_state = last_enq
        /\ last_enq.id = 2

C3_DropsNothing ==
    (pc_c = "idle" /\ result.op = "push"
        /\ result.note \notin {"noinst", "failed", "dropped_malformed"})
        => result.note = "enqueued"

\* C3 amended: a call whose entry check finds the running flag true and the
\* render thread alive goes on to build, and building from a well-formed game
\* appends exactly one snapshot; a call whose entry check finds the flag false
\* or no live render thread returns with the update queue unchanged.
C3_EnqueuesWhenRunning ==
    [][/\ (pc_c = "upd_check" /\ pc_c' # "upd_check")
            => IF running /\ gui_thread # 0 /\ Alive(gui_thread)
               THEN pc_c' = "upd_build" /\ UNCHANGED update_queue
               ELSE pc_c' = "idle" /\ UNCHANGED update_queue
       /\ (pc_c = "upd_build" /\ pc_c' # "upd_build" /\ cur.wf)
            => /\ pc_c' = "idle"
               /\ Len(update_queue') = Len(update_queue) + 1
               /\ update_queue' = Append(update_queue, last_enq')
               /\ last_enq'.id = nenq + 1]_vars

\* a well-formed call was dropped and, later, another one was enqueued
C3_Witness ==
    /\ pc_c = "idle"
    /\ result.op = "push"
    /\ result.note = "enqueued"
    /\ update_queue # <<>>
    /\ \E t \in Threads : thr[t].pc = "dead"

\* a well-formed call made while nothing runs has returned without enqueuing
C3_WitnessDropped ==
    pc_c = "idle" /\ result.op = "push" /\ result.note = "dropped"

\* C4: update_game_state never raises into its caller and never blocks, and
\* when building the snapshot fails nothing is enqueued: both queues are as
\* they were.
C4_PushNeverFails ==
    /\ [](pc_c \in UpdPcs =>
            ENABLED (UpdDropped \/ UpdAdmitted \/ UpdBuildOk \/ UpdBuildFails))
    /\ [][(pc_c \in UpdPcs /\ pc_c' # pc_c)
            => /\ ~caller_exc'
               /\ (pc_c = "upd_build" /\ ~cur.wf)
                    => /\ pc_c' = "idle"
                       /\ UNCHANGED <<update_queue, command_queue>>]_vars

\* a malformed game reached the builder while a snapshot was waiting
C4_Witness ==
    /\ pc_c = "idle"
    /\ result.op = "push"
    /\ result.note = "failed"
    /\ update_queue # <<>>
    /\ ~caller_exc

\* C5: initialise() with a live render thread spawns nothing, leaves the
\* queues and the render state alone and returns True.
C5_StartIdempotent ==
    [][(pc_c = "init_check" /\ pc_c' # "init_check"
            /\ gui_thread # 0 /\ Alive(gui_thread))
          => /\ pc_c' = "idle"
             /\ result'.op = "start"
             /\ result'.val = "true"
             /\ UNCHANGED <<thr, nthreads, gui_thread, update_queue,
                            command_queue, running, city_positions, action_log,
                            screen>>]_vars

\* a second initialise() has returned through the already-alive path
C5_Witness ==
    /\ pc_c = "idle"
    /\ result = Ret("start", "true", "alive")
    /\ nthreads = 1
    /\ Alive(1)
    /\ running

\* C6: when set_mode fails in the render thread, the ready event is never
\* set, the thread goes to its finally block and ends, the running flag is
\* false, no exception reaches the caller, and the initialise() call that
\* spawned the thread returns False.
C6_InitFailureContained ==
    \A t \in Threads :
        thr[t].exit = "init_fail" =>
            /\ ~thr[t].ready
            /\ thr[t].pc \in {"finally", "dead"}
            /\ (thr[t].pc = "finally" => ENABLED T_Finally(t))
            /\ (gui_thread = t) =>
                  /\ ~running
                  /\ ~caller_exc
                  /\ (pc_c = "idle" /\ result.op = "start"
                         /\ result.note # "alive")
                       => result.val = "false"

\* the spawning initialise() has returned False after the thread failed and ended
C6_Witness ==
    \E t \in Threads :
        /\ thr[t].exit = "init_fail"
        /\ thr[t].pc = "dead"
        /\ gui_thread = t
        /\ pc_c = "idle"
        /\ result = Ret("start", "false", "timeout")

\* C7: every shutdown() call returns, also when the render thread never
\* handles the quit command and never ends.
C7_StopReturns == (pc_c \in SdPcs) ~> (pc_c = "idle" /\ result.op = "stop")

\* shutdown() has returned although the render thread is still in its loop
\* with the quit command unread
C7_Witness ==
    /\ pc_c = "idle"
    /\ result.op = "stop"
    /\ result.note = "not_graceful"
    /\ command_queue # <<>>
    /\ Alive(gui_thread)

\* C8: when a shutdown() call whose check passed returns, either it has
\* reported "did not terminate gracefully", or the render thread has ended
\* and the running flag is false.
C8_StopOutcome ==
    (pc_c = "idle" /\ result.op = "stop"
        /\ result.note \notin {"skipped", "noinst"})
        => \/ result.note = "not_graceful"
           \/ /\ result.note = "graceful"
              /\ ~Alive(gui_thread)
              /\ ~running

\* a shutdown() that joined the thread in time has returned
C8_Witness ==
    /\ pc_c = "idle"
    /\ result = Ret("stop", "none", "graceful")
    /\ thr[gui_thread].pc = "dead"
    /\ ~running

NeverStarted == \A t \in Threads : thr[t].pc \in {"new", "nostart"}

\* C9: shutdown() with no render thread ever started puts no quit command,
\* never joins, leaves both queues empty as they were, raises nothing and
\* leaves the running flag false.
C9_StopBeforeStart ==
    NeverStarted =>
        /\ (pc_c \in SdPcs => pc_c \in {"sd_check", "sd_clear"})
        /\ (pc_c \in SdPcs \/ (pc_c = "idle" /\ result.op = "stop"))
             => /\ command_queue = <<>>
                /\ update_queue = <<>>
                /\ ~running
                /\ ~caller_exc
        /\ (pc_c = "idle" /\ result.op = "stop")
             => result.note \in {"skipped", "noinst"}

\* shutdown() on a constructed, never started instance has returned
C9_Witness ==
    /\ NeverStarted
    /\ gui_instance
    /\ pc_c = "idle"
    /\ result = Ret("stop", "none", "skipped")

\* C10: the caller thread never writes the running flag, the city-position
\* table, the action log or a render thread's game_state: a step of the
\* caller changes only the two queues.
C10_RenderStateExclusive ==
    [][(pc_c' # pc_c)
          => /\ UNCHANGED <<running, city_positions, action_log>>
             /\ \A t \in Threads :
                   thr'[t].game_state = thr[t].game_state]_vars

\* C11: a frame that raises does not stop the render loop. Every return from
\* _update_display, failed or not, leaves the thread in its drain loop with
\* the running flag and game_state as they were and no exit under way, and a
\* thread in the drain loop takes the next snapshot whenever one is queued.
C11_BadFrameContained ==
    /\ [](\A t \in Threads :
            (thr[t].pc = "upd" /\ update_queue # <<>>) => ENABLED T_UpdGet(t))
    /\ [][\A t \in Threads :
            (thr[t].pc = "draw" /\ thr'[t].pc # "draw")
                => /\ thr'[t].pc = "upd"
                   /\ thr'[t].exit = "none"
                   /\ running' = running
                   /\ thr'[t].game_state = thr[t].game_state]_vars

\* the frame of action-bearing snapshot 1 raised (its action is not in the
\* log); the thread is back in the drain loop, running, with snapshot 2 queued
C11_Witness ==
    \E t \in Threads :
        /\ thr[t].pc = "upd"
        /\ thr[t].game_state = [id |-> 1, action |-> TRUE]
        /\ thr[t].iter_draws = 1
        /\ action_log = <<>>
        /\ running
        /\ update_queue # <<>>

\* every pushed snapshot has been taken and its frame is over
LogDrained ==
    /\ pc_c = "idle"
    /\ update_queue = <<>>
    /\ thr[gui_thread].pc # "draw"

\* C12 as stated: the action log never holds more than 10 entries, and once
\* more than 10 action-bearing snapshots have been pushed while running and
\* drained, the log is the actions of the 10 pushed last, oldest first.
C12_LogIsLastTenPushed ==
    /\ Len(action_log) <= LogCapacity
    /\ (nenq > LogCapacity /\ LogDrained)
          => action_log = [i \in 1..LogCapacity |-> nenq - LogCapacity + i]

\* what the code keeps: at most 10 entries, the 10 last actions whose frame
\* reached _draw_action, oldest first
C12_LogIsLastTenDrawn ==
    /\ Len(action_log) <= LogCapacity
    /\ action_log = IF Len(drawn_ok) <= LogCapacity THEN drawn_ok
                    ELSE SubSeq(drawn_ok, Len(drawn_ok) - LogCapacity + 1,
                                Len(drawn_ok))

RECURSIVE GeomSum(_, _)
\* 1 + K + K^2 + ... + K^D
GeomSum(K, D) == IF D = 0 THEN 1 ELSE 1 + K * GeomSum(K, D - 1)

\* C13: for every tree and every D >= 0 and K >= 3, the graph built by
\* visualize_mcts_tree never has more than 1 + K + K^2 + ... + K^D nodes.
C13_GraphSizeBound ==
    (ts.pc # "off" /\ ts.K >= 3)
        => Cardinality(DOMAIN ts.G) <= GeomSum(ts.K, ts.D)

\* a finished graph that meets the bound after sampling dropped a child:
\* K = 3, D = 1, a root with four children, 1 + 3 nodes
C13_Witness ==
    /\ ts.pc = "done"
    /\ ts.K = 3
    /\ ts.D = 1
    /\ Len(Children(ts.par, 1)) = 4
    /\ Cardinality(DOMAIN ts.G) = GeomSum(3, 1)

\* child a of a node ranks before child b: a higher mean value, or the same
\* mean and an earlier place among the node's children
RanksBefore(st, a, b) ==
    \/ MeanNum(st[a]) * MeanDen(st[b]) > MeanNum(st[b]) * MeanDen(st[a])
    \/ /\ MeanNum(st[a]) * MeanDen(st[b]) = MeanNum(st[b]) * MeanDen(st[a])
       /\ a < b

\* C14: for K >= 3, every expanded node has its three children of highest
\* mean value (ties broken by original child order) among its emitted
\* children, whatever random.sample returned.
C14_TopThreeKept ==
    (ts.pc # "off" /\ ts.K >= 3)
        => \A p \in ts.expanded :
             LET kids == {i \in DOMAIN ts.par : ts.par[i] = p}
             IN  \A c \in kids :
                   Cardinality({b \in kids : RanksBefore(ts.st, b, c)}) < 3
                       => <<p, c>> \in ts.E

\* K = 4 and a root with five children: four are emitted, the first child,
\* unvisited, is left out and the last child, of mean 4/5, is kept
C14_Witness ==
    /\ ts.pc = "done"
    /\ ts.K = 4
    /\ 1 \in ts.expanded
    /\ Len(Children(ts.par, 1)) = 5
    /\ Cardinality({e \in ts.E : e[1] = 1}) = 4
    /\ ts.st[2] = <<0, 0>>
    /\ ts.st[6] = <<5, 4>>
    /\ <<1, 2>> \notin ts.E
    /\ <<1, 6>> \in ts.E

\* the reference call: root visits=10 value=6 with children (5, 4), (3, 1)
\* and (0, 0), D = 3, K = 4, after the breadth-first loop has ended
RefScenarioDone ==
    /\ ts.pc = "done"
    /\ ts.par = <<0, 1, 1, 1>>
    /\ ts.st = <<RootStat, <<5, 4>>, <<3, 1>>, <<0, 0>> >>
    /\ ts.D = 3
    /\ ts.K = 4

\* C15 as stated: in the reference scenario all three children are emitted,
\* the root label shows mean 0.60, the child of mean 4/5 is in the '>0.4'
\* colour tier (lightcoral) and the unvisited child has the neutral colour.
C15_ReferenceAsStated ==
    RefScenarioDone
        => /\ DOMAIN ts.G = 1..4
           /\ ts.E = {<<1, 2>>, <<1, 3>>, <<1, 4>>}
           /\ ts.G[1].mean100 = 60
           /\ ts.G[2].colour = "lightcoral"
           /\ ts.G[4].colour = "white"

\* C15 amended: in the reference scenario all three children are emitted,
\* the root label shows mean 0.60, the child of mean 4/5 is in the '>0.6'
\* colour tier (salmon: 0.8 is above 0.6 and not above 0.8) and the unvisited
\* child has the neutral colour (white).
C15_ReferenceScenario ==
    RefScenarioDone
        => /\ DOMAIN ts.G = 1..4
           /\ ts.E = {<<1, 2>>, <<1, 3>>, <<1, 4>>}
           /\ ts.G[1].mean100 = 60
           /\ ts.G[2].colour = "salmon"
           /\ ts.G[4].colour = "white"

\* the reference call has finished with a graph of four nodes
C15_Witness ==
    /\ RefScenarioDone
    /\ Cardinality(DOMAIN ts.G) = 4
    /\ ts.expanded = {1, 2, 3, 4}

\* C16: _draw_dashed_line draws exactly max(1, min(N, floor(max(1, L) / 10)))
\* dashes: the count c is at least 1, is above 1 only if c <= N and c dash
\* units fit in L, and is below N only if c + 1 units do not fit in L.
C16_DashCount ==
    dl.pc = "done"
        => LET c == Len(dl.dashes)
               S == Max2(1, SquaredLength(dl.p1, dl.p2))
           IN  /\ c >= 1
               /\ (c > 1) => (c <= dl.N /\ 100 * c * c <= S)
               /\ (c < dl.N) => (100 * (c + 1) * (c + 1) > S)
               /\ (dl.N <= 0 \/ S < 100) => c = 1

\* four dashes are asked for on a line that holds only two units: two dashes
C16_Witness ==
    /\ dl.pc = "done"
    /\ dl.N = 4
    /\ dl.p1 = <<0, 0>>
    /\ dl.p2 = <<20, 7>>
    /\ Len(dl.dashes) = 2

\* no dash is asked for (N = 0) on a long line: exactly one dash
C16_WitnessDegenerate ==
    /\ dl.pc = "done"
    /\ dl.N = 0
    /\ SquaredLength(dl.p1, dl.p2) > 400
    /\ Len(dl.dashes) = 1

\* (b - a) . (p2 - p1): how far b lies beyond a along the line from p1 to p2
Along(a, b, p1, p2) ==
    (b[1] - a[1]) * (p2[1] - p1[1]) + (b[2] - a[2]) * (p2[2] - p1[2])

\* C17: the last dash drawn ends exactly at P2, and every dash after the
\* first starts no earlier along the line from P1 to P2 than the dash before
\* it ended.
C17_DashEndpoint ==
    /\ dl.pc = "done" => dl.dashes[Len(dl.dashes)][2] = dl.p2
    /\ dl.pc # "off"
          => \A j \in 2..Len(dl.dashes) :
                Along(dl.dashes[j - 1][2], dl.dashes[j][1], dl.p1, dl.p2) >= 0

\* three dashes on a slanted line: the third ends at P2 and the second
\* starts strictly after the end of the first
C17_Witness ==
    /\ dl.pc = "done"
    /\ Len(dl.dashes) = 3
    /\ dl.p1[1] # dl.p2[1]
    /\ dl.p1[2] # dl.p2[2]
    /\ dl.dashes[3][2] = dl.p2
    /\ Along(dl.dashes[1][2], dl.dashes[2][1], dl.p1, dl.p2) > 0

\* C18 as stated: the ready signal is never set before the drawing surface
\* exists and the idle frame has been drawn, so when initialise() returns
\* True after waiting on it, the render thread is past the idle frame.
C18_ReadyAfterIdleFrame ==
    /\ \A t \in Threads :
          thr[t].ready => (screen # "none" /\ thr[t].pc # "idle")
    /\ (pc_c = "idle" /\ result = Ret("start", "true", "spawn"))
          => thr[gui_thread].pc # "idle"

\* the positions inside while self.parent.running
LoopPcs == {"loop", "events", "cmd", "upd", "draw"}

\* C19: a quit command enqueued while the render thread is in its loop makes
\* the thread, when it is scheduled fairly, leave the loop and terminate with
\* running false and the surface released; once running is false the thread
\* finishes its drain and never polls events or commands again.
C19_QuitCompletes ==
    /\ \A t \in Threads :
          (command_queue # <<>> /\ thr[t].pc \in LoopPcs)
              ~> (thr[t].pc = "dead" /\ ~running /\ screen = "closed")
    /\ [][\A t \in Threads :
            /\ (thr[t].pc = "cmd" /\ Len(command_queue') < Len(command_queue))
                  => (~running' /\ thr'[t].pc = "upd")
            /\ (~running /\ thr[t].pc \in {"upd", "draw", "loop"})
                  => thr'[t].pc \notin {"events", "cmd"}]_vars

\* shutdown() waits in join, its quit command has been taken from the queue
\* and the thread has left the loop normally and released the surface
C19_Witness ==
    /\ pc_c = "sd_join"
    /\ command_queue = <<>>
    /\ thr[gui_thread].pc = "dead"
    /\ thr[gui_thread].exit = "normal"
    /\ ~running
    /\ screen = "closed"

\* C20: a window-close event and a quit command act alike on the render
\* loop. Either one clears running in its iteration and touches nothing else
\* but the command it consumed; the iteration then goes on to the update
\* drain and empties it, the next loop-condition check leaves the loop
\* normally, and the thread ends with running false and the surface released.
C20_CloseSameAsQuit ==
    [][\A t \in Threads :
         LET close == /\ thr[t].pc = "events"
                      /\ thr'[t].pc = "cmd"
                      /\ running /\ ~running'
             quit == /\ thr[t].pc = "cmd"
                     /\ Len(command_queue') < Len(command_queue)
         IN  /\ (close \/ quit)
                  => /\ ~running'
                     /\ thr'[t] = [thr[t] EXCEPT
                                     !.pc = IF close THEN "cmd" ELSE "upd"]
                     /\ UNCHANGED <<update_queue, screen, action_log>>
             /\ close => UNCHANGED command_queue
             /\ quit => command_queue' = Tail(command_queue)
             /\ (thr[t].pc = "cmd" /\ thr'[t].pc # "cmd") => thr'[t].pc = "upd"
             /\ (~running /\ thr[t].pc = "upd" /\ thr'[t].pc # "upd")
                  => \/ thr'[t].pc = "draw" /\ update_queue # <<>>
                     \/ thr'[t].pc = "loop" /\ update_queue = <<>>
             /\ (~running /\ thr[t].pc = "loop" /\ thr'[t].pc # "loop")
                  => (thr'[t].pc = "finally" /\ thr'[t].exit = "normal")
             /\ (thr[t].exit = "normal" /\ thr[t].pc = "finally"
                   /\ thr'[t].pc # "finally")
                  => (thr'[t].pc = "dead" /\ ~running' /\ screen' = "closed")]_vars

\* a window-close event cleared running while no stop() was ever called; the
\* same iteration is at the update drain with a snapshot still to take
C20_Witness ==
    /\ nthreads = 1
    /\ pc_c = "idle"
    /\ result = Ret("push", "none", "enqueued")
    /\ thr[1].pc = "upd"
    /\ ~running
    /\ command_queue = <<>>
    /\ update_queue # <<>>

\* the quit command of stop() cleared running; the same iteration is at the
\* update drain with a snapshot still to take
C20_WitnessQuit ==
    /\ pc_c = "sd_join"
    /\ thr[gui_thread].pc = "upd"
    /\ ~running
    /\ command_queue = <<>>
    /\ update_queue # <<>>

\* C21: a render thread that has terminated, by normal loop exit, by an
\* initialisation failure or by an exception leaving the loop body, has left
\* running false and the surface released: the step in which a thread ends
\* clears both, and while the GUI's render thread is dead running is false.
C21_DeadThreadStopped ==
    /\ []((gui_thread # 0 /\ thr[gui_thread].pc = "dead")
             => (~running /\ screen = "closed"))
    /\ [][\A t \in Threads :
            (thr[t].pc # "dead" /\ thr'[t].pc = "dead")
                => (~running' /\ screen' = "closed")]_vars

\* the thread had set running and signalled ready, then an exception left the
\* loop body; it is dead with running false and the surface released
C21_Witness ==
    /\ gui_thread # 0
    /\ thr[gui_thread].pc = "dead"
    /\ thr[gui_thread].exit = "error"
    /\ thr[gui_thread].ready
    /\ pc_c = "idle"
    /\ result = Ret("start", "true", "spawn")
    /\ ~running
    /\ screen = "closed"

\* the thread failed in set_mode and is dead with running false
C21_WitnessInitFail ==
    /\ gui_thread # 0
    /\ thr[gui_thread].pc = "dead"
    /\ thr[gui_thread].exit = "init_fail"
    /\ ~running
    /\ screen = "closed"

\* C22: each channel is first in, first out and every item is consumed at
\* most once. The snapshots waiting in update_queue are the ones enqueued
\* last, in enqueue order, and every snapshot a thread has applied was
\* enqueued before them; a thread's game_state changes only to the head of
\* update_queue, which that step removes; command_queue changes only by the
\* put of shutdown() or by a render thread removing its head.
C22_FifoOnce ==
    /\ [](/\ \A i \in 1..Len(update_queue) :
                update_queue[i].id = nenq - Len(update_queue) + i
          /\ \A t \in Threads :
                thr[t].game_state.id <= nenq - Len(update_queue))
    /\ [][\A t \in Threads :
            thr'[t].game_state # thr[t].game_state
                => /\ update_queue # <<>>
                   /\ thr'[t].game_state = Head(update_queue)
                   /\ update_queue' = Tail(update_queue)]_vars
    /\ [][update_queue' # update_queue
            => \/ /\ pc_c = "upd_build"
                  /\ update_queue' = Append(update_queue, last_enq')
               \/ /\ update_queue # <<>>
                  /\ update_queue' = Tail(update_queue)
                  /\ \E t \in Threads :
                        thr[t].pc = "upd" /\ thr'[t].game_state = Head(update_queue)]_vars
    /\ [][command_queue' # command_queue
            => \/ /\ pc_c = "sd_put"
                  /\ command_queue' = Append(command_queue, "quit")
               \/ /\ command_queue # <<>>
                  /\ command_queue' = Tail(command_queue)
                  /\ \E t \in Threads :
                        thr[t].pc = "cmd" /\ thr'[t].pc = "upd"]_vars

\* two action-bearing snapshots were applied and drawn in the order of
\* their enqueueing
C22_Witness ==
    \E t \in Threads :
        /\ thr[t].game_state.id = 2
        /\ thr[t].pc = "upd"
        /\ drawn_ok = <<1, 2>>
        /\ update_queue = <<>>

\* across the channels: snapshot 1 was enqueued before the quit command and
\* the quit command has been processed first
C22_WitnessQuitFirst ==
    /\ pc_c = "sd_join"
    /\ command_queue = <<>>
    /\ ~running
    /\ nenq = 1
    /\ Len(update_queue) = 1
    /\ thr[gui_thread].game_state = NoState
    /\ thr[gui_thread].pc = "upd"

\* across the channels: snapshot 1 was applied while the quit command put
\* before its frame is still waiting
C22_WitnessSnapshotFirst ==
    /\ pc_c = "sd_join"
    /\ command_queue = <<"quit">>
    /\ running
    /\ thr[gui_thread].game_state.id = 1
    /\ thr[gui_thread].pc = "draw"

\* C23: at most one render thread is alive at any time, whatever start(),
\* push_snapshot() and stop() calls the caller thread issues, also when a
\* start() or a stop() has timed out on a thread that is still alive.
C23_OneLiveThread ==
    Cardinality({t \in Threads : Alive(t)}) <= 1

\* start() timed out on a thread still in set_mode; the next start() found
\* it alive and returned without spawning a second one
C23_Witness ==
    /\ pc_c = "idle"
    /\ result = Ret("start", "true", "alive")
    /\ nthreads = 1
    /\ thr[1].pc = "setmode"

\* a second thread was spawned after the first had ended
C23_WitnessRestart ==
    /\ nthreads = 2
    /\ thr[1].pc = "dead"
    /\ Alive(2)
    /\ running

RECURSIVE Pow(_, _)
\* K^D
Pow(K, D) == IF D = 0 THEN 1 ELSE K * Pow(K, D - 1)

RECURSIVE Depth(_, _)
\* the number of edges between node i and the root
Depth(par, i) == IF par[i] = 0 THEN 0 ELSE 1 + Depth(par, par[i])

\* C24 as stated: for every tree, D and K the graph built by
\* visualize_mcts_tree has at most K^D nodes.
C24_SizeAtMostPower ==
    ts.pc # "off" => Cardinality(DOMAIN ts.G) <= Pow(ts.K, ts.D)

\* C24 amended: for every tree, D >= 0 and K >= 1 the graph has at most K^d
\* nodes at each depth d <= D and no node deeper than D; the whole graph can
\* therefore hold up to 1 + K + ... + K^D nodes, more than K^D.
C24_LevelBound ==
    ts.pc # "off"
        => \A d \in 0..MaxNodes :
             Cardinality({i \in DOMAIN ts.G : Depth(ts.par, i) = d})
                 <= IF d <= ts.D THEN Pow(ts.K, d) ELSE 0

\* D = 1, K = 3 and a root with three children: the finished graph has
\* 4 nodes, one at depth 0 and K at depth 1, more than K^D = 3
C24_Witness ==
    /\ ts.pc = "done"
    /\ ts.D = 1
    /\ ts.K = 3
    /\ Len(Children(ts.par, 1)) = 3
    /\ Cardinality(DOMAIN ts.G) = 4
    /\ Cardinality(DOMAIN ts.G) > Pow(ts.K, ts.D)

\* C25: a node taken from the queue at depth >= D is never expanded, every
\* node put in the queue (every emitted node) is tagged with a depth <= D,
\* one more than the depth of the node that emitted it, and the traversal
\* ends for every input, also one deeper than D or with a cycle.
C25_DepthCapAndTermination ==
    /\ [](ts.pc # "off"
            => \A i \in 1..Len(ts.todo) : ts.todo[i][2] <= ts.D)
    /\ [][(ts.pc = "bfs" /\ ts'.pc = "bfs"
              /\ (ts'.G # ts.G \/ ts'.E # ts.E
                    \/ ts'.expanded # ts.expanded
                    \/ Len(ts'.todo) >= Len(ts.todo)))
            => /\ ts.todo # <<>>
               /\ Head(ts.todo)[2] < ts.D
               /\ \A i \in Len(ts.todo)..Len(ts'.todo) :
                     /\ ts'.todo[i][2] = Head(ts.todo)[2] + 1
                     /\ ts'.todo[i][1] \in DOMAIN ts'.G
                     /\ <<Head(ts.todo)[1], ts'.todo[i][1]>> \in ts'.E]_vars
    /\ <>(ts.pc \in {"done", "error"})

\* the structure is the cycle 1 -> 2 -> 3 -> 1 with D = 3: each node was
\* expanded once, the root met again at depth 3 was not, and the call ended
C25_Witness ==
    /\ ts.pc = "done"
    /\ ts.par = <<3, 1, 2>>
    /\ ts.D = 3
    /\ ts.E = {<<1, 2>>, <<2, 3>>, <<3, 1>>}
    /\ ts.expanded = {1, 2, 3}

\* C26 as stated: for every K >= 1 the sampler completes without error and
\* every expanded node with n children has exactly min(n, K) emitted
\* children.
C26_BranchingCap ==
    ts.pc # "off"
        => /\ ts.pc # "error"
           /\ \A p \in ts.expanded :
                 Cardinality({e \in ts.E : e[1] = p})
                     = Min2(Len(Children(ts.par, p)), ts.K)

\* C27 as stated: for a destination-draw action the edge label of the tree
\* sampler is 'Draw Dest N' with N the sum of the three per-ticket counts,
\* the kept-count format_action reports for the same action.
C27_DestLabelSumsAll ==
    (/\ frame.pc = "label"
     /\ frame.action # <<>>
     /\ frame.action[1] = "draw_destination_tickets"
     /\ frame.edge # <<>>
     /\ frame.text # <<>>)
        => /\ frame.edge = <<"Draw Dest", frame.action[2] + frame.action[3]
                                            + frame.action[4]>>
           /\ frame.edge[2] = frame.text[3]

\* C28 as stated: on a connection with two route variants, whatever the
\* claim state, the first variant is drawn at offset +5 and the second at
\* -5, claimed (by _draw_player_routes) or unclaimed (by _draw_map), and the
\* two variants are never drawn at the same offset.
C28_OffsetConsistent ==
    (frame.pc = "offsets" /\ frame.nvar = 2)
        => /\ \A d \in frame.drawn :
                 d.offset = IF d.variant = 1 THEN RouteOffset
                            ELSE 0 - RouteOffset
           /\ \A d, e \in frame.drawn :
                 d.variant # e.variant => d.offset # e.offset

\* C29: in every snapshot update_game_state builds, each listed connection
\* (cityA, cityB) has cityA < cityB, no undirected connection is listed
\* twice, and route_info has exactly one key 'cityA-cityB' per listed
\* connection, holding one (colour, length, claimed_by) entry per route
\* variant route_lookup returned, in order.
C29_ConnectionInvariant ==
    frame.pc = "conn" =>
        LET conns == frame.connections
            n == Len(conns)
        IN  /\ \A i \in 1..n : StrLess(conns[i][1], conns[i][2])
            /\ \A i, j \in 1..n :
                 i # j => {conns[i][1], conns[i][2]} # {conns[j][1], conns[j][2]}
            /\ DOMAIN frame.route_info
                 = {RouteKey(conns[i][1], conns[i][2]) : i \in 1..n}
            /\ Cardinality(DOMAIN frame.route_info) = n
            /\ \A i \in 1..n :
                 LET infos == frame.route_info[RouteKey(conns[i][1], conns[i][2])]
                     routes == frame.route_lookup[conns[i]]
                 IN  /\ Len(infos) = Len(routes)
                     /\ \A v \in 1..Len(routes) :
                          /\ infos[v].colour = routes[v].colour
                          /\ infos[v].length = routes[v].length
                          /\ infos[v].claimed_by = routes[v].claimed_by

\* a finished snapshot with two connections, one of them from a city to a
\* city whose name it is a prefix of, and one with two route variants
C29_Witness ==
    /\ frame.pc = "conn"
    /\ frame.todo = {}
    /\ Len(frame.connections) = 2
    /\ \E i \in 1..2 : Len(frame.connections[i][1]) < Len(frame.connections[i][2])
    /\ \E k \in DOMAIN frame.route_info : Len(frame.route_info[k]) = 2

\* a finished walk that met an entry in the city1 >= city2 direction and
\* left it out
C29_WitnessSkipped ==
    /\ frame.pc = "conn"
    /\ frame.todo = {}
    /\ frame.skipped = 1
    /\ Len(frame.connections) = 1

\* C30: once update_game_state has enqueued a snapshot, later changes of
\* the live game (hand mapping, destination list, claimed-connection list,
\* score, a route's claimant) leave the snapshot's contents as they were at
\* push time, in the queue and once the render loop has applied it.
C30_SnapshotIndependent ==
    frame.pc = "copy" =>
        /\ Len(frame.sent) = Len(frame.queue)
        /\ \A i \in 1..Len(frame.queue) :
             Resolve(frame.heap, frame.queue[i]) = frame.sent[i]
        /\ Len(frame.applied) = Len(frame.game_state)
        /\ \A i \in 1..Len(frame.game_state) :
             Resolve(frame.heap, frame.game_state[i]) = frame.applied[i]

\* the render loop holds a snapshot after whose push the game changed the
\* hand, the destination list and the claimed-connection list
C30_Witness ==
    /\ frame.pc = "copy"
    /\ Len(frame.game_state) = 1
    /\ frame.applied[1].train_cards # Live(frame).train_cards
    /\ frame.applied[1].destinations # Live(frame).destinations
    /\ frame.applied[1].claimed_connections # Live(frame).claimed_connections

\* a snapshot waits in the queue after whose push the game changed the
\* score and the claimant of the route
C30_WitnessValues ==
    /\ frame.pc = "copy"
    /\ Len(frame.queue) >= 1
    /\ frame.sent[1].points # Live(frame).points
    /\ frame.sent[1].claimed_by # Live(frame).claimed_by

\* C31 as stated: once stop() has returned and the render thread it
\* addressed has terminated, the command channel is empty, whatever the
\* interleaving of stop() with a window-close event, so that the render
\* loop of a later start() finds no quit left over.
C31_NoStaleQuit ==
    (/\ pc_c = "idle"
     /\ result.op = "stop"
     /\ gui_thread # 0
     /\ thr[gui_thread].pc = "dead")
        => command_queue = <<>>

\* C32 as stated: a snapshot that was in the update channel while the
\* render thread of one session was still alive is never applied by the
\* render thread of a later session.
C32_NoStaleSnapshot ==
    \A t \in Threads : \A n \in 1..MaxPush :
        []((/\ gui_thread = t
            /\ Alive(t)
            /\ \E i \in 1..Len(update_queue) : update_queue[i].id = n)
              => [](\A u \in Threads : u > t => thr[u].game_state.id # n))

\* C33 as stated: whenever start() returns success, on the spawn path or on
\* the already-alive path, the render thread is alive at the return and has
\* set the running flag and signalled ready before it.
C33_SuccessMeansReady ==
    [][(/\ pc_c # "idle"
        /\ pc_c' = "idle"
        /\ result'.op = "start"
        /\ result'.val = "true")
          => (/\ gui_thread' # 0
              /\ thr'[gui_thread'].pc \notin {"new", "nostart", "dead"}
              /\ thr'[gui_thread'].ready)]_vars

====
